---- MODULE Spec2Model ----
(***************************************************************************)
(* dmoji: a model of src/main.rs.                                          *)
(*                                                                         *)
(* Text (a Rust &str / String) is a sequence of one-character strings.     *)
(* An emoji text (the String stored in the catalog) is kept as the         *)
(* sequence of its Unicode scalar values; Utf8String gives its bytes.      *)
(* The catalog (HashMap<Cow<str>, String>) is a function from keys to      *)
(* values.                                                                 *)
(***************************************************************************)
EXTENDS Integers, Sequences, FiniteSets, TLC

(***************************************************************************)
(* Characters                                                              *)
(***************************************************************************)

\* char::is_whitespace / regex \s, restricted to the characters of the model
WhiteSpace == {" ", "\t", "\n", "\r"}

\* the character class [A-F0-9] of range_re and lit_re
HexUpper == {"0", "1", "2", "3", "4", "5", "6", "7", "8", "9",
             "A", "B", "C", "D", "E", "F"}

\* char::to_digit(16), as u32::from_str_radix uses it (accepts both cases)
ToDigit ==
    ("0" :> 0) @@ ("1" :> 1) @@ ("2" :> 2) @@ ("3" :> 3) @@ ("4" :> 4) @@
    ("5" :> 5) @@ ("6" :> 6) @@ ("7" :> 7) @@ ("8" :> 8) @@ ("9" :> 9) @@
    ("A" :> 10) @@ ("B" :> 11) @@ ("C" :> 12) @@ ("D" :> 13) @@ ("E" :> 14) @@
    ("F" :> 15) @@
    ("a" :> 10) @@ ("b" :> 11) @@ ("c" :> 12) @@ ("d" :> 13) @@ ("e" :> 14) @@
    ("f" :> 15)

None == [tag |-> "None"]

Drop(s, n) == SubSeq(s, n + 1, Len(s))

Take(s, n) == SubSeq(s, 1, n)

(***************************************************************************)
(* str::trim, str::split_whitespace, str::lines                            *)
(***************************************************************************)

RECURSIVE TrimStart(_)
TrimStart(s) ==
    IF s # <<>> /\ s[1] \in WhiteSpace THEN TrimStart(Tail(s)) ELSE s

RECURSIVE TrimEnd(_)
TrimEnd(s) ==
    IF s # <<>> /\ s[Len(s)] \in WhiteSpace THEN TrimEnd(Take(s, Len(s) - 1)) ELSE s

Trim(s) == TrimEnd(TrimStart(s))

\* length of the longest prefix of s whose characters are all in set
RECURSIVE SpanLen(_, _)
SpanLen(s, set) ==
    IF s # <<>> /\ s[1] \in set THEN 1 + SpanLen(Tail(s), set) ELSE 0

\* length of the longest prefix of s with no character in set
RECURSIVE CospanLen(_, _)
CospanLen(s, set) ==
    IF s # <<>> /\ s[1] \notin set THEN 1 + CospanLen(Tail(s), set) ELSE 0

\* str::split_whitespace: the maximal runs of non-whitespace, in order
RECURSIVE SplitWhitespace(_)
SplitWhitespace(s) ==
    LET t == TrimStart(s)
        n == CospanLen(t, WhiteSpace)
    IN  IF t = <<>> THEN <<>>
        ELSE <<Take(t, n)>> \o SplitWhitespace(Drop(t, n))

\* Lines::next on the remaining text: None at the end, else the line (without
\* its "\n" or "\r\n" ending) and the text that remains
LinesNext(rest) ==
    IF rest = <<>> THEN None
    ELSE LET n    == CospanLen(rest, {"\n"})
             term == n < Len(rest)
             cr   == term /\ n > 0 /\ rest[n] = "\r"
         IN  [tag  |-> "Some",
              line |-> Take(rest, IF cr THEN n - 1 ELSE n),
              rest |-> Drop(rest, IF term THEN n + 1 ELSE n)]

(***************************************************************************)
(* unichar: u32::from_str_radix(s, 16) then char::from_u32                 *)
(***************************************************************************)

RECURSIVE StripZeros(_)
StripZeros(ds) ==
    IF ds # <<>> /\ ds[1] = 0 THEN StripZeros(Tail(ds)) ELSE ds

\* the value of a base-16 numeral given by its digits
RECURSIVE DigitsValue(_)
DigitsValue(ds) ==
    IF ds = <<>> THEN 0 ELSE 16 * DigitsValue(Take(ds, Len(ds) - 1)) + ds[Len(ds)]

\* u32::from_str_radix(s, 16).  A u32 is kept as its significant base-16
\* digits: the parse overflows exactly when there are more than 8 of them.
FromStrRadix16(s) ==
    LET body == IF s # <<>> /\ s[1] = "+" THEN Tail(s) ELSE s
    IN  IF s = <<>> THEN [tag |-> "Err", kind |-> "Empty"]
        ELSE IF body = <<>> THEN [tag |-> "Err", kind |-> "InvalidDigit"]
        ELSE IF \E i \in 1..Len(body) : body[i] \notin DOMAIN ToDigit
        THEN [tag |-> "Err", kind |-> "InvalidDigit"]
        ELSE LET ds == StripZeros([i \in 1..Len(body) |-> ToDigit[body[i]]])
             IN  IF Len(ds) > 8 THEN [tag |-> "Err", kind |-> "PosOverflow"]
                 ELSE [tag |-> "Ok", digits |-> ds]

SurrogateFirst == DigitsValue(<<13, 8, 0, 0>>)

SurrogateLast == DigitsValue(<<13, 15, 15, 15>>)

CharMax == DigitsValue(<<1, 0, 15, 15, 15, 15>>)

\* mutant: char::from_u32_unchecked, no test of the value
CharFromU32_unchecked(ds) == [tag |-> "Some", ch |-> DigitsValue(ds)]

\* char::from_u32 of a u32 given by its significant digits
CharFromU32(ds) ==
    IF Len(ds) > 6 THEN None
    ELSE LET v == DigitsValue(ds)
         IN  IF v > CharMax \/ (v >= SurrogateFirst /\ v <= SurrogateLast)
             THEN None
             ELSE [tag |-> "Some", ch |-> v]

\* mutant: the run parsed as a u16
unichar_u16(s) ==
    LET n == FromStrRadix16(s)
    IN  IF n.tag = "Err" \/ Len(n.digits) > 4 THEN None ELSE CharFromU32(n.digits)

unichar(s) ==
    LET n == FromStrRadix16(s)
    IN  IF n.tag = "Err" THEN None ELSE CharFromU32(n.digits)

(***************************************************************************)
(* Scanner                                                                 *)
(***************************************************************************)

Min(S) == CHOOSE x \in S : \A y \in S : x <= y

\* line_re = ^(.*?);(.*?);(.*?)#(.*?)$ : Regex::captures.  "." matches any
\* character but "\n", and the pattern spans the whole text, so a text
\* holding "\n" has no match.  Each of the first three groups is lazy: it is
\* the shortest text for which the rest of the pattern still matches.
LineReCaptures(line) ==
    LET n  == Len(line)
        Is == {i \in 1..n : /\ line[i] = ";"
                            /\ \E j \in (i + 1)..n :
                                  /\ line[j] = ";"
                                  /\ \E k \in (j + 1)..n : line[k] = "#"}
    IN  IF (\E p \in 1..n : line[p] = "\n") \/ Is = {} THEN None
        ELSE LET i == Min(Is)
                 j == Min({q \in (i + 1)..n :
                              /\ line[q] = ";"
                              /\ \E k \in (q + 1)..n : line[k] = "#"})
                 k == Min({q \in (j + 1)..n : line[q] = "#"})
             IN  [tag |-> "Some",
                  g1  |-> SubSeq(line, 1, i - 1),
                  g2  |-> SubSeq(line, i + 1, j - 1),
                  g3  |-> SubSeq(line, j + 1, k - 1),
                  g4  |-> SubSeq(line, k + 1, n)]

\* range_re = ^([A-F0-9]+)\.\.([A-F0-9]+)$ : Regex::captures
RangeReCaptures(seq) ==
    LET n    == SpanLen(seq, HexUpper)
        rest == Drop(seq, n + 2)
    IN  IF /\ n >= 1
           /\ Len(seq) >= n + 3
           /\ seq[n + 1] = "."
           /\ seq[n + 2] = "."
           /\ SpanLen(rest, HexUpper) = Len(rest)
        THEN [tag |-> "Some", g1 |-> Take(seq, n), g2 |-> rest]
        ELSE None

\* the (\s+[A-F0-9])*$ part of lit_re: each repetition is a run of whitespace
\* followed by ONE hexadecimal digit
RECURSIVE LitReTail(_)
LitReTail(t) ==
    \/ t = <<>>
    \/ LET m == SpanLen(t, WhiteSpace)
       IN  /\ m >= 1
           /\ Len(t) > m
           /\ t[m + 1] \in HexUpper
           /\ LitReTail(Drop(t, m + 1))

\* lit_re = ^[A-F0-9]+(\s+[A-F0-9])*$ : Regex::is_match
LitReIsMatch(seq) ==
    LET n == SpanLen(seq, HexUpper)
    IN  n >= 1 /\ LitReTail(Drop(seq, n))

\* .map(unichar).collect::<Option<String>>()
RECURSIVE CollectChars(_)
CollectChars(runs) ==
    IF runs = <<>> THEN [tag |-> "Some", text |-> <<>>]
    ELSE LET c    == unichar(runs[1])
             more == CollectChars(Tail(runs))
         IN  IF c = None \/ more = None THEN None
             ELSE [tag |-> "Some", text |-> <<c.ch>> \o more.text]

\* Scanner::scan_seq: None, or the Sequence
scan_seq(seq) ==
    LET range == RangeReCaptures(seq)
    IN  IF range # None
        THEN LET low  == unichar(range.g1)
                 high == unichar(range.g2)
             IN  IF low = None \/ high = None THEN None
                 ELSE [tag |-> "Range", low |-> low.ch, high |-> high.ch]
        ELSE IF LitReIsMatch(seq)
        THEN LET lit == CollectChars(SplitWhitespace(seq))
             IN  IF lit = None THEN None
                 ELSE [tag |-> "Literal", lit |-> lit.text]
        ELSE None

\* mutant: the description taken from the fourth group
scan_line_group4(line) ==
    LET caps == LineReCaptures(line)
    IN  IF caps = None THEN None
        ELSE LET sequence == scan_seq(Trim(caps.g1))
             IN  IF sequence = None THEN None
                 ELSE [tag         |-> "Some",
                       sequence    |-> sequence,
                       description |-> Trim(caps.g4)]

\* Scanner::scan_line: None, or the Emoji
scan_line(line) ==
    LET caps == LineReCaptures(line)
    IN  IF caps = None THEN None
        ELSE LET sequence == scan_seq(Trim(caps.g1))
             IN  IF sequence = None THEN None
                 ELSE [tag         |-> "Some",
                       sequence    |-> sequence,
                       description |-> Trim(caps.g3)]

(***************************************************************************)
(* RangeInclusive<char>, format!, String::as_bytes, HashMap::insert        *)
(***************************************************************************)

\* <char as Step>::forward(c, 1): the next scalar value, past the surrogates
CharForward(c) == IF c + 1 = SurrogateFirst THEN SurrogateLast + 1 ELSE c + 1

\* low..=high
RangeNew(low, high) == [start |-> low, end |-> high, exhausted |-> FALSE]

\* mutant: the half-open range low..high
RangeNext_exclusive(r) ==
    IF r.start >= r.end THEN [item |-> None, iter |-> r]
    ELSE [item |-> [tag |-> "Some", ch |-> r.start],
          iter |-> [r EXCEPT !.start = CharForward(r.start)]]

\* RangeInclusive::next: the item (or None) and the iterator afterwards
RangeInclusiveNext(r) ==
    IF r.exhausted \/ r.start > r.end THEN [item |-> None, iter |-> r]
    ELSE IF r.start < r.end
    THEN [item |-> [tag |-> "Some", ch |-> r.start],
          iter |-> [r EXCEPT !.start = CharForward(r.start)]]
    ELSE [item |-> [tag |-> "Some", ch |-> r.start],
          iter |-> [r EXCEPT !.exhausted = TRUE]]

DecDigits == <<"0", "1", "2", "3", "4", "5", "6", "7", "8", "9">>

\* the Display of a usize
RECURSIVE FormatUsize(_)
FormatUsize(n) ==
    IF n < 10 THEN <<DecDigits[n + 1]>>
    ELSE FormatUsize(n \div 10) \o <<DecDigits[(n % 10) + 1]>>

\* format!("{}-{}", description, idx)
FormatName(description, idx) == description \o <<"-">> \o FormatUsize(idx)

\* the UTF-8 encoding of one scalar value
Utf8(c) ==
    IF c < 128 THEN <<c>>
    ELSE IF c < 2048 THEN <<192 + (c \div 64), 128 + (c % 64)>>
    ELSE IF c < 65536
    THEN <<224 + (c \div 4096), 128 + ((c \div 64) % 64), 128 + (c % 64)>>
    ELSE <<240 + (c \div 262144), 128 + ((c \div 4096) % 64),
           128 + ((c \div 64) % 64), 128 + (c % 64)>>

\* String::as_bytes of a text given by its scalar values
RECURSIVE Utf8String(_)
Utf8String(text) ==
    IF text = <<>> THEN <<>> ELSE Utf8(text[1]) \o Utf8String(Tail(text))

\* HashMap::new
EmptyMap == [k \in {} |-> <<>>]

\* mutant: entry(k).or_insert(v), the first value of a key is kept
MapInsert_or_insert(m, k, v) ==
    [x \in DOMAIN m \cup {k} |-> IF x \in DOMAIN m THEN m[x] ELSE v]

\* mutant: entry(k).or_default().push_str(v), the values of a key pile up
MapInsert_append(m, k, v) ==
    [x \in DOMAIN m \cup {k} |->
        IF x # k THEN m[x] ELSE IF k \in DOMAIN m THEN m[k] \o v ELSE v]

\* HashMap::insert: the value of an existing key is replaced
MapInsert(m, k, v) == [x \in DOMAIN m \cup {k} |-> IF x = k THEN v ELSE m[x]]

\* HashMap::get
MapGet(m, k) == IF k \in DOMAIN m THEN [tag |-> "Some", value |-> m[k]] ELSE None

(***************************************************************************)
(* Inputs                                                                  *)
(***************************************************************************)

EMOJI_SEQUENCES == "emoji-sequences.txt"

EMOJI_ZWJ_SEQUENCES == "emoji-zwj-sequences.txt"

\* lines a data file may hold in the runs of main:
\*   41;q;x#c            literal U+0041 named x
\*   42;q; x #c#d\r      literal U+0042 named x (padded, two "#", CR LF ending)
\*   D7FF..E000;q;x#c    range named x: x-0, x-1
\*   43;q;x-0#c          literal U+0043 named x-0
\*   D800;q;x#c          a surrogate: no record
FileLines ==
    << <<"4", "1", ";", "q", ";", "x", "#", "c">>,
       <<"4", "2", ";", "q", ";", " ", "x", " ", "#", "c", "#", "d", "\r">>,
       <<"D", "7", "F", "F", ".", ".", "E", "0", "0", "0", ";", "q", ";", "x", "#", "c">>,
       <<"4", "3", ";", "q", ";", "x", "-", "0", "#", "c">>,
       <<"D", "8", "0", "0", ";", "q", ";", "x", "#", "c">> >>

\* the most lines a data file holds
MaxLines == 2

\* the text of a file with the given lines, each ended by "\n"
RECURSIVE JoinLines(_)
JoinLines(ls) ==
    IF ls = <<>> THEN <<>> ELSE ls[1] \o <<"\n">> \o JoinLines(Tail(ls))

FileTexts ==
    {JoinLines([i \in DOMAIN f |-> FileLines[f[i]]]) :
        f \in UNION {[1..n -> 1..Len(FileLines)] : n \in 0..MaxLines}}

\* what dmenu may print for a catalog: a key and a newline, a key padded with
\* whitespace, a text that is no key, or nothing (the menu was dismissed)
Selections(m) ==
    {k \o <<"\n">> : k \in DOMAIN m}
        \cup {<<" ">> \o k \o <<"\r", "\n">> : k \in DOMAIN m}
        \cup {<<"z", "\n">>, <<>>}

(***************************************************************************)
(* main                                                                    *)
(***************************************************************************)

VARIABLES
    pc,             \* where main is
    stderr,         \* the diagnostics printed so far
    pri_emoji,      \* text of emoji-sequences.txt as loaded
    zwj_emoji,      \* text of emoji-zwj-sequences.txt as loaded
    cur,            \* Chain: 1 while the first iterator is live, then 2
    rest,           \* the text each Lines iterator has yet to split
    line,           \* the line last handed to scan_line
    em,             \* the loop variable: the Emoji last scanned, or None
    chars,          \* the RangeInclusive<char> being enumerated
    idx,            \* the count of enumerate()
    map,            \* the catalog
    inserted,       \* history: every map.insert made, in order
    rec_start,      \* history: Len(inserted) when em was scanned
    map_after_pri,  \* history: the catalog when the first file was exhausted
    menu,           \* dmenu: "none", "failed" or "running"
    menu_in,        \* the lines written to dmenu
    selection,      \* what was read back from dmenu, or None
    emoji,          \* the result of map.get
    wl_copy,        \* wl-copy: "none", "failed" or "running"
    wl_in,          \* the bytes written to wl-copy
    exit_code       \* None while running, else the exit status

vars == <<pc, stderr, pri_emoji, zwj_emoji, cur, rest, line, em, chars, idx,
          map, inserted, rec_start, map_after_pri, menu, menu_in, selection,
          emoji, wl_copy, wl_in, exit_code>>

scan_vars == <<cur, rest, line, em, chars, idx, map, inserted, rec_start,
               map_after_pri>>

proc_vars == <<menu, menu_in, selection, emoji, wl_copy, wl_in>>

Exited(code) == [tag |-> "Some", code |-> code]

Init ==
    /\ pc = "locate"
    /\ stderr = <<>>
    /\ pri_emoji = <<>>
    /\ zwj_emoji = <<>>
    /\ cur = 1
    /\ rest = << <<>>, <<>> >>
    /\ line = <<>>
    /\ em = None
    /\ chars = RangeNew(0, 0)
    /\ idx = 0
    /\ map = EmptyMap
    /\ inserted = <<>>
    /\ rec_start = 0
    /\ map_after_pri = EmptyMap
    /\ menu = "none"
    /\ menu_in = {}
    /\ selection = None
    /\ emoji = None
    /\ wl_copy = "none"
    /\ wl_in = <<>>
    /\ exit_code = None

\* DataDir::locate.  A debug build takes the directory three levels above the
\* executable and panics if current_exe fails; a release build wants
\* <exe>/../share/dmoji/emoji-sequences.txt to be a file and exits otherwise.
Locate ==
    /\ pc = "locate"
    /\ \E debug_assertions \in BOOLEAN, current_exe_ok \in BOOLEAN, is_file \in BOOLEAN :
          IF debug_assertions
          THEN IF current_exe_ok
               THEN pc' = "load_pri" /\ UNCHANGED <<stderr, exit_code>>
               ELSE /\ pc' = "exit"
                    /\ stderr' = Append(stderr, [msg |-> "panicked: std::env::current_exe"])
                    /\ exit_code' = Exited(101)
          ELSE IF current_exe_ok /\ is_file
               THEN pc' = "load_pri" /\ UNCHANGED <<stderr, exit_code>>
               ELSE /\ pc' = "exit"
                    /\ stderr' = Append(stderr, [msg |-> "dmoji: no data dir found"])
                    /\ exit_code' = Exited(1)
    /\ UNCHANGED <<pri_emoji, zwj_emoji, scan_vars, proc_vars>>

\* DataDir::load_file: the text of the file, or a diagnostic and the empty text
load_file(file, read) ==
    IF read.tag = "Ok"
    THEN [data |-> read.data, stderr |-> stderr]
    ELSE [data   |-> <<>>,
          stderr |-> Append(stderr, [msg |-> "dmoji: could not read", file |-> file])]

ReadToString == {[tag |-> "Ok", data |-> t] : t \in FileTexts} \cup {[tag |-> "Err"]}

LoadPri ==
    /\ pc = "load_pri"
    /\ \E read \in ReadToString :
          LET r == load_file(EMOJI_SEQUENCES, read)
          IN  pri_emoji' = r.data /\ stderr' = r.stderr
    /\ pc' = "load_zwj"
    /\ UNCHANGED <<zwj_emoji, scan_vars, proc_vars, exit_code>>

\* mutant: the first text chained with itself
LoadZwj_chains_pri_twice ==
    /\ pc = "load_zwj"
    /\ \E read \in ReadToString :
          LET r == load_file(EMOJI_ZWJ_SEQUENCES, read)
          IN  /\ zwj_emoji' = r.data
              /\ stderr' = r.stderr
              /\ rest' = <<pri_emoji, pri_emoji>>
    /\ cur' = 1
    /\ map' = EmptyMap
    /\ pc' = "scan"
    /\ UNCHANGED <<pri_emoji, line, em, chars, idx, inserted, rec_start,
                   map_after_pri, proc_vars, exit_code>>

\* the second load_file, then the chained iterators and the empty map
LoadZwj ==
    /\ pc = "load_zwj"
    /\ \E read \in ReadToString :
          LET r == load_file(EMOJI_ZWJ_SEQUENCES, read)
          IN  /\ zwj_emoji' = r.data
              /\ stderr' = r.stderr
              /\ rest' = <<pri_emoji, r.data>>
    /\ cur' = 1
    /\ map' = EmptyMap
    /\ pc' = "scan"
    /\ UNCHANGED <<pri_emoji, line, em, chars, idx, inserted, rec_start,
                   map_after_pri, proc_vars, exit_code>>

\* one step of the iterator the for loop drives: the next line of the live
\* Lines iterator goes through scan_line; a line that yields None is skipped,
\* the end of the first file moves the chain to the second, the end of the
\* second ends the loop
ScanStep ==
    /\ pc = "scan"
    /\ LET next == LinesNext(rest[cur])
       IN  IF next = None
           THEN /\ IF cur = 1
                   THEN cur' = 2 /\ map_after_pri' = map /\ pc' = "scan"
                   ELSE pc' = "spawn_dmenu" /\ UNCHANGED <<cur, map_after_pri>>
                /\ UNCHANGED <<rest, line, em, chars, idx, rec_start>>
           ELSE LET e == scan_line(next.line)
                IN  /\ rest' = [rest EXCEPT ![cur] = next.rest]
                    /\ line' = next.line
                    /\ em' = e
                    /\ rec_start' = Len(inserted)
                    /\ idx' = 0
                    /\ IF e = None THEN pc' = "scan" /\ UNCHANGED chars
                       ELSE IF e.sequence.tag = "Literal"
                       THEN pc' = "literal" /\ UNCHANGED chars
                       ELSE /\ pc' = "range"
                            /\ chars' = RangeNew(e.sequence.low, e.sequence.high)
                    /\ UNCHANGED <<cur, map_after_pri>>
    /\ UNCHANGED <<stderr, pri_emoji, zwj_emoji, map, inserted, proc_vars, exit_code>>

\* Sequence::Literal(seq) => map.insert(description, seq)
InsertLiteral ==
    /\ pc = "literal"
    /\ map' = MapInsert(map, em.description, em.sequence.lit)
    /\ inserted' = Append(inserted, [key |-> em.description, value |-> em.sequence.lit])
    /\ pc' = "scan"
    /\ UNCHANGED <<stderr, pri_emoji, zwj_emoji, cur, rest, line, em, chars, idx,
                   rec_start, map_after_pri, proc_vars, exit_code>>

\* Sequence::Range(chars): one turn of for (idx, ch) in chars.enumerate()
InsertRange ==
    /\ pc = "range"
    /\ LET n == RangeInclusiveNext(chars)
       IN  /\ chars' = n.iter
           /\ IF n.item = None
              THEN pc' = "scan" /\ UNCHANGED <<map, inserted, idx>>
              ELSE LET name == FormatName(em.description, idx)
                   IN  /\ map' = MapInsert(map, name, <<n.item.ch>>)
                       /\ inserted' = Append(inserted, [key |-> name, value |-> <<n.item.ch>>])
                       /\ idx' = idx + 1
                       /\ pc' = "range"
    /\ UNCHANGED <<stderr, pri_emoji, zwj_emoji, cur, rest, line, em, rec_start,
                   map_after_pri, proc_vars, exit_code>>

\* Command::new("dmenu").spawn(), then every key written to its stdin (in the
\* HashMap's order, which is not kept here)
SpawnDmenu ==
    /\ pc = "spawn_dmenu"
    /\ \E spawned \in BOOLEAN :
          IF spawned
          THEN /\ menu' = "running"
               /\ menu_in' = DOMAIN map
               /\ pc' = "read_selection"
               /\ UNCHANGED <<stderr, exit_code>>
          ELSE /\ menu' = "failed"
               /\ stderr' = Append(stderr, [msg |-> "dmoji: failed to spawn dmenu"])
               /\ pc' = "exit"
               /\ exit_code' = Exited(1)
               /\ UNCHANGED menu_in
    /\ UNCHANGED <<pri_emoji, zwj_emoji, scan_vars, selection, emoji, wl_copy, wl_in>>

\* dmenu_out.read_to_string(&mut selection)
ReadSelection ==
    /\ pc = "read_selection"
    /\ \/ \E s \in Selections(map) :
             /\ selection' = [tag |-> "Some", text |-> s]
             /\ pc' = "lookup"
             /\ UNCHANGED <<stderr, exit_code>>
       \/ /\ stderr' = Append(stderr, [msg |-> "dmoji: error reading from dmenu"])
          /\ pc' = "exit"
          /\ exit_code' = Exited(1)
          /\ UNCHANGED selection
    /\ UNCHANGED <<pri_emoji, zwj_emoji, scan_vars, menu, menu_in, emoji, wl_copy, wl_in>>

\* mutant: a selection that is no key ends main by a return
Lookup_returns ==
    /\ pc = "lookup"
    /\ LET got == MapGet(map, Trim(selection.text))
       IN  /\ emoji' = got
           /\ IF got = None
              THEN pc' = "exit" /\ exit_code' = Exited(0)
              ELSE pc' = "spawn_wl_copy" /\ UNCHANGED exit_code
    /\ UNCHANGED <<stderr, pri_emoji, zwj_emoji, scan_vars, menu, menu_in, selection,
                   wl_copy, wl_in>>

\* map.get(selection.trim())
Lookup ==
    /\ pc = "lookup"
    /\ LET got == MapGet(map, Trim(selection.text))
       IN  /\ emoji' = got
           /\ IF got = None
              THEN pc' = "exit" /\ exit_code' = Exited(1)
              ELSE pc' = "spawn_wl_copy" /\ UNCHANGED exit_code
    /\ UNCHANGED <<stderr, pri_emoji, zwj_emoji, scan_vars, menu, menu_in, selection,
                   wl_copy, wl_in>>

\* Command::new("wl-copy").spawn()
SpawnWlCopy ==
    /\ pc = "spawn_wl_copy"
    /\ \E spawned \in BOOLEAN :
          IF spawned
          THEN wl_copy' = "running" /\ pc' = "write" /\ UNCHANGED <<stderr, exit_code>>
          ELSE /\ wl_copy' = "failed"
               /\ stderr' = Append(stderr, [msg |-> "dmoji: failed to spawn wl-copy"])
               /\ pc' = "exit"
               /\ exit_code' = Exited(1)
    /\ UNCHANGED <<pri_emoji, zwj_emoji, scan_vars, menu, menu_in, selection, emoji, wl_in>>

\* mutant: the text written with a newline after it
WriteWlCopy_newline ==
    /\ pc = "write"
    /\ wl_in' = wl_in \o Utf8String(emoji.value) \o <<10>>
    /\ pc' = "exit"
    /\ exit_code' = Exited(0)
    /\ UNCHANGED <<stderr, pri_emoji, zwj_emoji, scan_vars, menu, menu_in, selection,
                   emoji, wl_copy>>

\* wl_copy_in.write_all(emoji.as_bytes()), then main returns
WriteWlCopy ==
    /\ pc = "write"
    /\ wl_in' = wl_in \o Utf8String(emoji.value)
    /\ pc' = "exit"
    /\ exit_code' = Exited(0)
    /\ UNCHANGED <<stderr, pri_emoji, zwj_emoji, scan_vars, menu, menu_in, selection,
                   emoji, wl_copy>>

Next ==
    \/ Locate
    \/ LoadPri
    \/ LoadZwj
    \/ ScanStep
    \/ InsertLiteral
    \/ InsertRange
    \/ SpawnDmenu
    \/ ReadSelection
    \/ Lookup
    \/ SpawnWlCopy
    \/ WriteWlCopy

Spec == Init /\ [][Next]_vars

(***************************************************************************)
(* The build loop over one line at a time                                  *)
(***************************************************************************)

\* runs of digits a literal spec is made of: valid scalars of one to five
\* digits, a surrogate, a value above 10FFFF, a value above 32 bits, a
\* non-hexadecimal token, a lowercase token
Runs ==
    {<<"4", "1">>,
     <<"1", "F", "6", "0", "0">>,
     <<"2", "0", "0", "D">>,
     <<"4">>,
     <<"D", "8", "0", "0">>,
     <<"1", "1", "0", "0", "0", "0">>,
     <<"1", "0", "0", "0", "0", "0", "0", "0", "0">>,
     <<"1", "F", "4", "6", "G">>,
     <<"1", "f", "6", "0", "0">>}

\* the most runs a literal spec holds
MaxRuns == 2

RECURSIVE JoinRuns(_)
JoinRuns(rs) ==
    IF Len(rs) = 1 THEN rs[1] ELSE rs[1] \o <<" ">> \o JoinRuns(Tail(rs))

LiteralSpecs ==
    {JoinRuns(rs) : rs \in UNION {[1..n -> Runs] : n \in 1..MaxRuns}}

\* ends of a range spec: scalars on both sides of the surrogates, a
\* surrogate, a value above 10FFFF, a non-hexadecimal and a lowercase token
RangeEnds ==
    {<<"D", "7", "F", "7">>,
     <<"D", "7", "F", "F">>,
     <<"E", "0", "0", "0">>,
     <<"E", "0", "0", "1">>,
     <<"D", "8", "0", "0">>,
     <<"1", "1", "0", "0", "0", "0">>,
     <<"1", "F", "4", "6", "G">>,
     <<"e", "0", "0", "0">>}

RangeSpecs == {a \o <<".", ".">> \o b : a \in RangeEnds, b \in RangeEnds}

\* specs of neither shape, and literals whose runs are separated by more
\* than one whitespace character
OtherSpecs ==
    {<<>>,
     <<"#">>,
     <<"#", " ", "c">>,
     <<"4", "1", ".", "4", "2">>,
     <<"4", "1", ".", ".">>,
     <<"4", "1", "\t", " ", "4">>,
     <<"1", "F", "6", "0", "0", " ", " ", "2", "0", "0", "D">>}

ScanSpecs == LiteralSpecs \cup RangeSpecs \cup OtherSpecs

ScanDescriptions == {<<"x">>, <<" ", "x", " ", "y", " ">>}

\* the lines put through the loop: each spec in
\*   S;q;D#c      the plain three-field line
\*    S ;q;D#c#d  padded field1, two "#" after field3
\*   S;q#r;D#c    a "#" inside field2
\*   S;q # D      one ";" only
\* and the blank lines
ScanLines ==
    UNION {{s \o <<";", "q", ";">> \o d \o <<"#", "c">>,
            <<" ">> \o s \o <<" ", ";", "q", ";">> \o d \o <<"#", "c", "#", "d">>,
            s \o <<";", "q", "#", "r", ";">> \o d \o <<"#", "c">>,
            s \o <<";", "q", " ", "#">> \o d} :
              s \in ScanSpecs, d \in ScanDescriptions}
        \cup {<<>>, <<" ">>}

\* main at the head of its loop, emoji-sequences.txt holding a first line
\* and one of ScanLines, emoji-zwj-sequences.txt empty
InitScan ==
    /\ pc = "scan"
    /\ stderr = <<>>
    /\ \E l \in ScanLines : pri_emoji = JoinLines(<<FileLines[1], l>>)
    /\ zwj_emoji = <<>>
    /\ cur = 1
    /\ rest = <<pri_emoji, zwj_emoji>>
    /\ line = <<>>
    /\ em = None
    /\ chars = RangeNew(0, 0)
    /\ idx = 0
    /\ map = EmptyMap
    /\ inserted = <<>>
    /\ rec_start = 0
    /\ map_after_pri = EmptyMap
    /\ menu = "none"
    /\ menu_in = {}
    /\ selection = None
    /\ emoji = None
    /\ wl_copy = "none"
    /\ wl_in = <<>>
    /\ exit_code = None

NextScan ==
    \/ ScanStep
    \/ InsertLiteral
    \/ InsertRange

SpecScan == InitScan /\ [][NextScan]_vars

(***************************************************************************)
(* Vocabulary of the properties                                            *)
(***************************************************************************)

\* the first position at or after from where s holds c, or 0
FirstAt(s, c, from) ==
    IF \E p \in from..Len(s) : s[p] = c
    THEN CHOOSE p \in from..Len(s) : s[p] = c /\ \A q \in from..(p - 1) : s[q] # c
    ELSE 0

Semi1(l) == FirstAt(l, ";", 1)

Semi2(l) == IF Semi1(l) = 0 THEN 0 ELSE FirstAt(l, ";", Semi1(l) + 1)

Hash(l) == IF Semi2(l) = 0 THEN 0 ELSE FirstAt(l, "#", Semi2(l) + 1)

\* l has the shape field1;field2;field3#description
ThreeFields(l) == Hash(l) # 0

Field1(l) == SubSeq(l, 1, Semi1(l) - 1)

Field3(l) == SubSeq(l, Semi2(l) + 1, Hash(l) - 1)

AfterHash(l) == SubSeq(l, Hash(l) + 1, Len(l))

\* the number of "#" of l after position p
HashesAfter(l, p) == Cardinality({q \in (p + 1)..Len(l) : l[q] = "#"})

\* r is one run of uppercase hexadecimal digits naming a scalar value
ScalarRun(r) ==
    /\ r # <<>>
    /\ \A i \in 1..Len(r) : r[i] \in HexUpper
    /\ LET ds == StripZeros([i \in 1..Len(r) |-> ToDigit[r[i]]])
       IN  /\ Len(ds) <= 6
           /\ DigitsValue(ds) <= CharMax
           /\ ~(DigitsValue(ds) >= SurrogateFirst /\ DigitsValue(ds) <= SurrogateLast)

RunValue(r) == DigitsValue([i \in 1..Len(r) |-> ToDigit[r[i]]])

\* the scalar values from low to high, ascending
ScalarsBetween(low, high) ==
    LET S == {c \in low..high : c < SurrogateFirst \/ c > SurrogateLast}
    IN  [i \in 1..Cardinality(S) |->
            CHOOSE c \in S : Cardinality({x \in S : x < c}) = i - 1]

\* the number a decimal numeral without sign denotes
RECURSIVE DecimalValue(_)
DecimalValue(t) ==
    IF t = <<>> THEN 0
    ELSE 10 * DecimalValue(Take(t, Len(t) - 1))
            + (CHOOSE d \in 0..9 : DecDigits[d + 1] = t[Len(t)])

\* t is the canonical decimal numeral of n
IsDecimalOf(t, n) ==
    /\ t # <<>>
    /\ \A i \in 1..Len(t) : \E d \in 1..10 : DecDigits[d] = t[i]
    /\ (Len(t) > 1 => t[1] # "0")
    /\ DecimalValue(t) = n

\* the insertions of the record being built, so far
RecordInsertions == SubSeq(inserted, rec_start + 1, Len(inserted))

(***************************************************************************)
(* C1                                                                      *)
(***************************************************************************)

\* C1 (as stated): a line field1;field2;field3#description whose trimmed
\* field1 resolves yields one record whose description is the trimmed text
\* after the first "#" that follows field3.
C1_DescriptionAfterHash ==
    (ThreeFields(line) /\ scan_seq(Trim(Field1(line))) # None)
        => (em # None /\ em.description = Trim(AfterHash(line)))

\* C1 (amended): a line field1;field2;field3#rest whose trimmed field1
\* resolves yields one record whose description is field3 trimmed: the text
\* between the second ";" and the first "#" after it, however many "#" follow.
C1_DescriptionIsField3 ==
    (ThreeFields(line) /\ scan_seq(Trim(Field1(line))) # None)
        => (em # None /\ em.description = Trim(Field3(line)))

\* a padded field3 followed by two "#" has been scanned to a record
C1_Witness ==
    /\ ThreeFields(line)
    /\ em # None
    /\ HashesAfter(line, Semi2(line)) >= 2
    /\ Field3(line) # Trim(Field3(line))
    /\ Trim(Field3(line)) # Trim(AfterHash(line))
    /\ pc = "literal"

(***************************************************************************)
(* C2                                                                      *)
(***************************************************************************)

\* l is H;field2#D with a single ";" and H one run naming a scalar value
OneSemiForm(l) ==
    /\ Semi1(l) # 0
    /\ Semi2(l) = 0
    /\ FirstAt(l, "#", Semi1(l) + 1) # 0
    /\ ScalarRun(Field1(l))

\* l is H;field2;D#rest with H one run naming a scalar value
TwoSemiForm(l) == ThreeFields(l) /\ ScalarRun(Field1(l))

\* C2 (as stated): a line H;field2 # D with a single ";" before the "#" and H
\* one run of uppercase hexadecimal digits naming a scalar value yields
\* exactly one record, with description D trimmed and the Literal of the one
\* character H.
C2_OneSemiLineYieldsRecord ==
    OneSemiForm(line)
        => /\ em # None
           /\ em.description =
                 Trim(SubSeq(line, FirstAt(line, "#", Semi1(line) + 1) + 1, Len(line)))
           /\ em.sequence = [tag |-> "Literal", lit |-> <<RunValue(Field1(line))>>]

\* C2 (amended): a line H;field2;D#rest, two ";" before the "#", H one run of
\* uppercase hexadecimal digits naming a scalar value, yields exactly one
\* record, with description D trimmed and the Literal of the one character H,
\* and the loop inserts exactly that one entry for it; a line with a single
\* ";" yields no record.
C2_TwoSemiLineYieldsRecord ==
    /\ TwoSemiForm(line)
          => /\ em = [tag         |-> "Some",
                      sequence    |-> [tag |-> "Literal", lit |-> <<RunValue(Field1(line))>>],
                      description |-> Trim(Field3(line))]
             /\ pc # "literal"
                   => RecordInsertions =
                         <<[key |-> Trim(Field3(line)), value |-> <<RunValue(Field1(line))>>]>>
    /\ OneSemiForm(line) => (em = None /\ RecordInsertions = <<>>)

\* the record of a five-digit H;field2;D#rest line has been inserted
C2_Witness ==
    /\ TwoSemiForm(line)
    /\ Len(Field1(line)) = 5
    /\ pc = "scan"
    /\ Len(RecordInsertions) = 1
    /\ map[Trim(Field3(line))] = <<RunValue(Field1(line))>>

(***************************************************************************)
(* C3                                                                      *)
(***************************************************************************)

\* C3: a spec of n >= 1 whitespace-separated runs of uppercase hexadecimal
\* digits, each of any length and each naming a scalar value, resolves to the
\* Literal of the n characters in listed order, never to nothing.
C3_LiteralOfRuns ==
    LET runs == SplitWhitespace(Field1(line))
    IN  (ThreeFields(line) /\ runs # <<>> /\ \A i \in 1..Len(runs) : ScalarRun(runs[i]))
            => /\ scan_seq(Trim(Field1(line))) # None
               /\ em # None
               /\ em.sequence = [tag |-> "Literal",
                                 lit |-> [i \in 1..Len(runs) |-> RunValue(runs[i])]]

(***************************************************************************)
(* C4                                                                      *)
(***************************************************************************)

\* C4: once the loop is through a record Range(low, high) with description
\* d, it has inserted exactly one entry per scalar value from low to high
\* (the surrogates are none), in ascending order, the i-th from 0 under the
\* key d-i with the one-character text of that value, and the catalog holds
\* each of them; when low > high it has inserted nothing and raised no error.
C4_RangeEntries ==
    (pc = "scan" /\ em # None /\ em.sequence.tag = "Range")
        => LET want == ScalarsBetween(em.sequence.low, em.sequence.high)
               got  == RecordInsertions
           IN  /\ Len(got) = Len(want)
               /\ \A i \in 1..Len(got) :
                     /\ got[i].value = <<want[i]>>
                     /\ Len(got[i].key) > Len(em.description) + 1
                     /\ Take(got[i].key, Len(em.description)) = em.description
                     /\ got[i].key[Len(em.description) + 1] = "-"
                     /\ IsDecimalOf(Drop(got[i].key, Len(em.description) + 1), i - 1)
                     /\ got[i].key \in DOMAIN map
                     /\ map[got[i].key] = <<want[i]>>
               /\ exit_code = None

\* a range across the surrogates with more than ten members is through
C4_Witness ==
    /\ pc = "scan"
    /\ em # None
    /\ em.sequence.tag = "Range"
    /\ em.sequence.low < SurrogateFirst
    /\ em.sequence.high > SurrogateLast
    /\ Len(RecordInsertions) = 11
    /\ RecordInsertions[11].key = em.description \o <<"-", "1", "0">>

(***************************************************************************)
(* C5                                                                      *)
(***************************************************************************)

\* the runs the spec s names: the two ends of a range, or the
\* whitespace-separated runs of a literal
SpecRuns(s) ==
    IF \E p \in 1..(Len(s) - 1) : s[p] = "." /\ s[p + 1] = "."
    THEN LET p == CHOOSE p \in 1..(Len(s) - 1) :
                     /\ s[p] = "." /\ s[p + 1] = "."
                     /\ \A q \in 1..(p - 1) : ~(s[q] = "." /\ s[q + 1] = ".")
         IN  <<Take(s, p - 1), Drop(s, p + 1)>>
    ELSE SplitWhitespace(s)

\* s is no resolvable spec: it names no run, or one of its runs is no run of
\* uppercase hexadecimal digits naming a scalar value
Unresolvable(s) ==
    SpecRuns(s) = <<>> \/ \E i \in 1..Len(SpecRuns(s)) : ~ScalarRun(SpecRuns(s)[i])

\* l is blank, a comment, or a three-field line whose field1 does not resolve
SkippedLine(l) ==
    \/ Trim(l) = <<>>
    \/ (l # <<>> /\ l[1] = "#")
    \/ (ThreeFields(l) /\ Unresolvable(Trim(Field1(l))))

\* C5: the step that takes a blank line, a comment or a line whose trimmed
\* field1 is no resolvable spec yields no record, leaves the catalog as it
\* was, raises no error and leaves the loop at its next line.
C5_SkippedLineInsertsNothing ==
    [][(rest' # rest /\ SkippedLine(line'))
          => /\ em' = None
             /\ map' = map
             /\ inserted' = inserted
             /\ pc' = "scan"
             /\ exit_code' = None]_vars

\* a range whose low end is a scalar value and whose high end is not has been
\* skipped with the catalog holding the first line's entry
C5_Witness ==
    /\ ThreeFields(line)
    /\ Len(SpecRuns(Trim(Field1(line)))) = 2
    /\ ScalarRun(SpecRuns(Trim(Field1(line)))[1])
    /\ ~ScalarRun(SpecRuns(Trim(Field1(line)))[2])
    /\ SpecRuns(Trim(Field1(line)))[2] = <<"D", "8", "0", "0">>
    /\ em = None
    /\ pc = "scan"
    /\ DOMAIN map = {<<"x">>}
    /\ Len(inserted) = 1

(***************************************************************************)
(* The catalog a text stands for                                           *)
(***************************************************************************)

\* the lines of a text, in order
RECURSIVE TextLines(_)
TextLines(text) ==
    LET n == LinesNext(text)
    IN  IF n = None THEN <<>> ELSE <<n.line>> \o TextLines(n.rest)

\* the entries a record stands for, in order
RecordEntries(e) ==
    IF e.sequence.tag = "Literal"
    THEN <<[key |-> e.description, value |-> e.sequence.lit]>>
    ELSE LET cs == ScalarsBetween(e.sequence.low, e.sequence.high)
         IN  [i \in 1..Len(cs) |->
                 [key   |-> e.description \o <<"-">> \o FormatUsize(i - 1),
                  value |-> <<cs[i]>>]]

\* the entries the lines stand for, in line order
RECURSIVE LinesEntries(_)
LinesEntries(ls) ==
    IF ls = <<>> THEN <<>>
    ELSE (IF scan_line(ls[1]) = None THEN <<>> ELSE RecordEntries(scan_line(ls[1])))
            \o LinesEntries(Tail(ls))

TextEntries(text) == LinesEntries(TextLines(text))

\* the catalog in which every key has the value of its last entry
LastWins(es) ==
    [k \in {es[i].key : i \in 1..Len(es)} |->
        es[CHOOSE i \in 1..Len(es) :
              es[i].key = k /\ \A j \in (i + 1)..Len(es) : es[j].key # k].value]

\* main is past its build loop
Built ==
    \/ pc \in {"spawn_dmenu", "read_selection", "lookup", "spawn_wl_copy", "write"}
    \/ (pc = "exit" /\ menu # "none")

Unreadable(file) ==
    \E i \in 1..Len(stderr) : stderr[i] = [msg |-> "dmoji: could not read", file |-> file]

(***************************************************************************)
(* C6                                                                      *)
(***************************************************************************)

\* C6: at every moment the catalog holds exactly the keys inserted so far,
\* each with the value of the last insertion under it, so no key is ever
\* removed; and when the build loop ends the insertions made are those of the
\* first file's lines in order followed by those of the second file's, range
\* members low to high.
C6_LastWriteWins ==
    /\ map = LastWins(inserted)
    /\ pc = "spawn_dmenu" => inserted = TextEntries(pri_emoji) \o TextEntries(zwj_emoji)

\* the second file has redefined, by a literal, a key the first file composed
\* from a range
C6_Witness ==
    /\ Built
    /\ \E i \in 1..Len(TextEntries(pri_emoji)) :
          /\ inserted[i].key = <<"x", "-", "0">>
          /\ inserted[i].value = <<SurrogateFirst - 1>>
    /\ \E j \in (Len(TextEntries(pri_emoji)) + 1)..Len(inserted) :
          /\ inserted[j].key = <<"x", "-", "0">>
          /\ inserted[j].value = <<67>>
    /\ map[<<"x", "-", "0">>] = <<67>>

(***************************************************************************)
(* C7                                                                      *)
(***************************************************************************)

Printed(m) == \E i \in 1..Len(stderr) : stderr[i] = [msg |-> m]

\* DataDir::locate did not return
LocateFailed ==
    pc = "exit" /\ (Printed("dmoji: no data dir found")
                       \/ Printed("panicked: std::env::current_exe"))

DmenuNotStarted == pc = "exit" /\ menu = "failed"

DmenuNotRead == pc = "exit" /\ menu = "running" /\ selection = None

SelectionNotFound ==
    pc = "exit" /\ selection # None /\ Trim(selection.text) \notin DOMAIN map

\* wl-copy is started only after a successful lookup, and no step past
\* the build loop changes the catalog
WlCopyOnlyAfterLookup ==
    /\ [](wl_copy # "none" => (emoji # None /\ selection # None
                                 /\ Trim(selection.text) \in DOMAIN map))
    /\ [][Built => map' = map]_vars

\* C7 (as stated): the process ends with exit status 1 when the data
\* directory cannot be located, dmenu cannot be started, its output cannot be
\* read or the trimmed selection is no key of the catalog; in all four cases
\* wl-copy is never started and receives no bytes; wl-copy is started only
\* after a successful lookup and the catalog is not modified after the build.
C7_FailuresExitOne ==
    /\ []((LocateFailed \/ DmenuNotStarted \/ DmenuNotRead \/ SelectionNotFound)
            => (exit_code = Exited(1) /\ wl_copy = "none" /\ wl_in = <<>>))
    /\ WlCopyOnlyAfterLookup

\* C7 (amended): the process ends with exit status 1 when a release build
\* cannot locate the data directory, when dmenu cannot be started, when its
\* output cannot be read or when the trimmed selection is no key of the
\* catalog, and with the status of a panic, 101, when a debug build cannot
\* get the path of its executable; in all these cases wl-copy is never
\* started and receives no bytes; wl-copy is started only after a successful
\* lookup and the catalog is not modified after the build.
C7_FailuresExitNonZero ==
    /\ []((LocateFailed \/ DmenuNotStarted \/ DmenuNotRead \/ SelectionNotFound)
            => /\ exit_code = IF Printed("panicked: std::env::current_exe")
                              THEN Exited(101) ELSE Exited(1)
               /\ wl_copy = "none"
               /\ wl_in = <<>>)
    /\ WlCopyOnlyAfterLookup

\* a selection that is no key has ended the run, the catalog holding keys
C7_Witness ==
    /\ SelectionNotFound
    /\ selection.text = <<"z", "\n">>
    /\ DOMAIN map # {}
    /\ exit_code = Exited(1)

(***************************************************************************)
(* C8                                                                      *)
(***************************************************************************)

RECURSIVE Utf8Decode(_)
Utf8Decode(bs) ==
    IF bs = <<>> THEN <<>>
    ELSE IF bs[1] < 128 THEN <<bs[1]>> \o Utf8Decode(Drop(bs, 1))
    ELSE IF bs[1] < 224
    THEN <<(bs[1] - 192) * 64 + (bs[2] - 128)>> \o Utf8Decode(Drop(bs, 2))
    ELSE IF bs[1] < 240
    THEN <<(bs[1] - 224) * 4096 + (bs[2] - 128) * 64 + (bs[3] - 128)>>
            \o Utf8Decode(Drop(bs, 3))
    ELSE <<(bs[1] - 240) * 262144 + (bs[2] - 128) * 4096 + (bs[3] - 128) * 64
              + (bs[4] - 128)>> \o Utf8Decode(Drop(bs, 4))

\* the number of bytes of the UTF-8 encoding of a scalar value
Utf8Len(c) == IF c < 128 THEN 1 ELSE IF c < 2048 THEN 2 ELSE IF c < 65536 THEN 3 ELSE 4

RECURSIVE Utf8TextLen(_)
Utf8TextLen(text) ==
    IF text = <<>> THEN 0 ELSE Utf8Len(text[1]) + Utf8TextLen(Tail(text))

\* C9: no key of the catalog begins or ends with whitespace; and once a
\* selection whose trimmed form is a key k has been looked up, the lookup has
\* succeeded with the value of k, and what wl-copy has received when the run
\* ends is exactly the UTF-8 bytes of that value, nothing added.
C9_SelectionReachesWlCopy ==
    /\ \A k \in DOMAIN map :
          k # <<>> => (k[1] \notin WhiteSpace /\ k[Len(k)] \notin WhiteSpace)
    /\ (selection # None /\ pc # "lookup" /\ Trim(selection.text) \in DOMAIN map)
          => /\ emoji = [tag |-> "Some", value |-> map[Trim(selection.text)]]
             /\ pc = "exit" => wl_copy # "none"
             /\ (pc = "exit" /\ wl_copy = "running")
                   => /\ Utf8Decode(wl_in) = map[Trim(selection.text)]
                      /\ Len(wl_in) = Utf8TextLen(map[Trim(selection.text)])
                      /\ \A i \in 1..Len(wl_in) : wl_in[i] \in 0..255

\* a padded selection has put the three bytes of a one-character value
\* through wl-copy
C9_Witness ==
    /\ pc = "exit"
    /\ wl_copy = "running"
    /\ selection # None
    /\ selection.text # Trim(selection.text)
    /\ selection.text[1] = " "
    /\ Len(wl_in) = 3
    /\ exit_code = Exited(0)

(***************************************************************************)
(* C10                                                                     *)
(***************************************************************************)

\* C10: when both files hold the same text T, the catalog built from the
\* records of T followed by the records of T again has the keys and the
\* values of the catalog as it stood after the records of T once.
C10_ScanTwiceIsScanOnce ==
    (Built /\ pri_emoji = zwj_emoji)
        => /\ DOMAIN map = DOMAIN map_after_pri
           /\ \A k \in DOMAIN map : map[k] = map_after_pri[k]

\* the same text, a range and a literal under colliding names, was scanned twice
C10_Witness ==
    /\ Built
    /\ pri_emoji = zwj_emoji
    /\ Len(TextLines(pri_emoji)) = 2
    /\ Len(inserted) = 6
    /\ Cardinality(DOMAIN map) = 2

====
